---- MODULE Spec2Model ----
(***************************************************************************)
(* Model of kubernetes_agent/agent.py: the kubeconfig resolution chain     *)
(* (load_kubernetes_config) and the seven read-only query tools built on   *)
(* it (get_pods, get_nodes, get_namespaces, get_services, get_deployments, *)
(* describe_pod, get_logs).                                                *)
(*                                                                         *)
(* Strings built with f-strings are modelled as sequences of tokens, so    *)
(* that "the message contains X" is membership of X in the sequence.       *)
(* Python's None is the token NONE.                                        *)
(***************************************************************************)
EXTENDS Integers, Sequences, FiniteSets, TLC

VARIABLES
    KUBECONFIG, \* os.environ.get('KUBECONFIG'): NONE when unset
    defaultCfg, \* the kubernetes library's process-wide default configuration
    last,       \* the tool call that has just returned: arguments, remote
                \* calls issued, record returned (NoCall: none pending)
    th,         \* concurrent callers: each caller's position in its tool
                \* call, and what the call holds so far
    rin,        \* resolver probe: the inputs of one load_kubernetes_config call
    rpc,        \* resolver probe: "ready" before the call, "done" after it
    rout        \* resolver probe: what the call did

vars == <<KUBECONFIG, defaultCfg, last, th, rin, rpc, rout>>
toolVars == <<KUBECONFIG, defaultCfg, last>>
probeVars == <<rin, rpc, rout>>

\* The callers of the concurrent specification, and a caller between calls.
Callers == {"A", "B"}
Idle == [pc |-> "idle"]

NONE == "<none>"

\* Python truthiness of an Optional[str]: None and "" are falsy.
Truthy(s) == s # NONE /\ s # ""

(***************************************************************************)
(* load_kubernetes_config                                                  *)
(***************************************************************************)

\* The four credential sources, in the order the documentation lists them.
Sources == <<"explicit", "env", "incluster", "default">>

\* What one config.load_* call of the kubernetes library can do.
\* api_exc: the load raises a kubernetes ApiException (a token refresh that
\* the server rejects); a load table names it as load["raises"].
LoadOutcomes == {"ok", "config_exc", "api_exc", "other_exc"}

\* No ApiException: the value of `api` in a result that carries none.
NoApiException == [kind |-> "ok"]

\* str(e) of the exception a failed load of source s raises.
ErrText(s) == <<"load failed", s>>

\* The process-wide default client configuration before any load succeeded:
\* config.load_* replaces it on success and leaves it alone on failure.
NoConfig == [source |-> "unconfigured", file |-> NONE]

\* The branch of the if/elif/else chain that is taken (agent.py lines 42-54).
PrimaryBySwappedOrder(path, exists, kubeEnv) ==
    IF Truthy(kubeEnv) THEN "env"
    ELSE IF Truthy(path) /\ exists THEN "explicit"
    ELSE "incluster"

PrimarySource(path, exists, kubeEnv) ==
    IF Truthy(path) /\ exists THEN "explicit"
    ELSE IF Truthy(kubeEnv) THEN "env"
    ELSE "incluster"

\* The file a source reads (the in-cluster source reads the mounted token).
SourceFile(s, path, kubeEnv) ==
    CASE s = "explicit"  -> path
      [] s = "env"       -> kubeEnv
      [] s = "incluster" -> "in-cluster"
      [] s = "default"   -> "~/.kube/config"

\* The configuration config.load_* installs as the library's default when
\* the load of source s succeeds.  load_kube_config(config_file=None) reads
\* the default file.
LoadedConfig(s, path, kubeEnv) ==
    IF s = "env" /\ kubeEnv = NONE
    THEN [source |-> "default", file |-> SourceFile("default", path, kubeEnv)]
    ELSE [source |-> s, file |-> SourceFile(s, path, kubeEnv)]

\* f"{v}" of an Optional[str]: None is printed as "None".
FormatStr(v) == IF v = NONE THEN "None" ELSE v

\* The status string returned after source s loaded.
LoadedStatus(s, path, kubeEnv) ==
    CASE s = "explicit"  -> <<"Loaded kubeconfig from: ", path>>
      [] s = "env"       -> <<"Loaded kubeconfig from KUBECONFIG env var: ", FormatStr(kubeEnv)>>
      [] s = "incluster" -> <<"Loaded in-cluster config (running inside Kubernetes)">>
      [] s = "default"   -> <<"Loaded kubeconfig from default location (~/.kube/config)">>

\* The status string returned when the primary source and the default file
\* both failed: f"Failed to load any Kubernetes config: {e}, {fallback_error}".
FailedStatus(prim) ==
    <<"Failed to load any Kubernetes config: ">> \o ErrText(prim)
        \o <<", ">> \o ErrText("default")

\* The except clause of the outer try: only config.ConfigException is caught.
CaughtByOuterExcept(outcome) == outcome = "config_exc"

\* The fallback of lines 55-61, taken after the primary raised ConfigException.
FallbackGivesUp(prim, path, kubeEnv, load, prev) ==
    [raised |-> FALSE, status |-> FailedStatus(prim), exc |-> <<>>,
     api |-> NoApiException, config |-> prev, attempts |-> <<prim>>]

Fallback(prim, path, kubeEnv, load, prev) ==
    IF load["default"] = "ok"
    THEN [raised |-> FALSE, status |-> LoadedStatus("default", path, kubeEnv),
          exc |-> <<>>, api |-> NoApiException,
          config |-> LoadedConfig("default", path, kubeEnv),
          attempts |-> <<prim, "default">>]
    ELSE [raised |-> FALSE, status |-> FailedStatus(prim), exc |-> <<>>,
          api |-> NoApiException, config |-> prev,
          attempts |-> <<prim, "default">>]

\* load_kubernetes_config(kubeconfig_path) in an environment where
\* os.path.exists(kubeconfig_path) = exists, os.environ.get('KUBECONFIG') =
\* kubeEnv, a load of source s ends as load[s], and the process-wide default
\* configuration is prev.  The result holds the returned status or the
\* exception that escapes (exc: its text; api: the exception itself when it
\* is an ApiException), the default configuration afterwards, and the loads
\* that were attempted, in order.
load_kubernetes_config(path, exists, kubeEnv, load, prev) ==
    LET prim == PrimarySource(path, exists, kubeEnv) IN
    IF load[prim] = "ok"
    THEN [raised |-> FALSE, status |-> LoadedStatus(prim, path, kubeEnv),
          exc |-> <<>>, api |-> NoApiException,
          config |-> LoadedConfig(prim, path, kubeEnv),
          attempts |-> <<prim>>]
    ELSE IF CaughtByOuterExcept(load[prim])
    THEN Fallback(prim, path, kubeEnv, load, prev)
    ELSE [raised |-> TRUE, status |-> <<>>, exc |-> ErrText(prim),
          api |-> IF load[prim] = "api_exc" THEN load["raises"]
                  ELSE NoApiException,
          config |-> prev, attempts |-> <<prim>>]

(***************************************************************************)
(* Strings whose characters matter (namespace arguments, the bodies of the *)
(* API server's error answers) are sequences of one-character strings.     *)
(***************************************************************************)

\* str.lower() on one character: the upper-case letters of the alphabet the
\* model draws its texts from go to their lower-case letters, every other
\* character stays.
UpperLetters ==
    <<"A", "B", "C", "D", "E", "F", "G", "H", "I", "J", "K", "L", "M", "N",
      "O", "P", "Q", "R", "S", "T", "U", "V", "W", "X", "Y", "Z">>
LowerLetters ==
    <<"a", "b", "c", "d", "e", "f", "g", "h", "i", "j", "k", "l", "m", "n",
      "o", "p", "q", "r", "s", "t", "u", "v", "w", "x", "y", "z">>
LowerChar(c) ==
    IF \E i \in DOMAIN UpperLetters : UpperLetters[i] = c
    THEN LowerLetters[CHOOSE i \in DOMAIN UpperLetters : UpperLetters[i] = c]
    ELSE c

LowerNotApplied(s) == s

Lower(s) == [i \in DOMAIN s |-> LowerChar(s[i])]

StrAll == <<"a", "l", "l">>
NsDev  == <<"d", "e", "v">>
NsOps  == <<"o", "p", "s">>

\* None where the client library would hold an object.
NoneObj == [none |-> TRUE]

\* None for an Optional[int] field or argument (no modelled integer is negative).
NONE_INT == -1

\* `x or 0` on an Optional[int].
OrZero(n) == IF n = NONE_INT THEN 0 ELSE n

\* str(v) of a timestamp or of an int-or-string value.
StrOf(v) == <<"str", v>>

(***************************************************************************)
(* The cluster behind the API server.  An absent (None) collection of the  *)
(* client library is the empty sequence: the code only tests collections   *)
(* for truthiness before it reads them.                                    *)
(***************************************************************************)

ContainerApp ==
    [name |-> "app", image |-> "web:1",
     ports |-> <<[container_port |-> 8080, protocol |-> "TCP"]>>,
     env |-> <<[name |-> "MODE", value |-> "prod"],
               [name |-> "TOKEN", value |-> NONE],
               [name |-> "EMPTY", value |-> ""]>>,
     requests |-> <<<<"cpu", "100m">>>>, limits |-> <<>>]

ContainerSidecar ==
    [name |-> "sidecar", image |-> "proxy:2", ports |-> <<>>, env |-> <<>>,
     requests |-> <<>>, limits |-> <<>>]

StateRunning ==
    [running |-> [started_at |-> "t1"], terminated |-> NoneObj,
     waiting |-> NoneObj]
StateWaiting ==
    [running |-> NoneObj, terminated |-> NoneObj,
     waiting |-> [reason |-> "CrashLoopBackOff", message |-> "back-off"]]

\* States outside the usual two: terminated, no field set, and two fields set
\* (every field of V1ContainerState is optional).
StateTerminated ==
    [running |-> NoneObj,
     terminated |-> [exit_code |-> 0, reason |-> "Completed", message |-> NONE],
     waiting |-> NoneObj]
StateUnset ==
    [running |-> NoneObj, terminated |-> NoneObj, waiting |-> NoneObj]
StateRunningAndWaiting ==
    [running |-> [started_at |-> "t2"], terminated |-> NoneObj,
     waiting |-> [reason |-> "ContainerCreating", message |-> NONE]]
StateTerminatedAndWaiting ==
    [running |-> NoneObj,
     terminated |-> [exit_code |-> 1, reason |-> "Error", message |-> "failed"],
     waiting |-> [reason |-> "CrashLoopBackOff", message |-> "back-off"]]

\* The containers of the pod "job" and the state reported for each; the state
\* of the last one is None.
JobSteps == <<"fetch", "build", "test", "pack", "push">>
JobStates ==
    <<StateTerminated, StateUnset, StateRunningAndWaiting,
      StateTerminatedAndWaiting, NoneObj>>

ClusterPods ==
    << [name |-> "solo", namespace |-> NsDev, uid |-> "u1", created |-> "t0",
        labels |-> <<<<"app", "web">>>>, annotations |-> <<>>,
        phase |-> "Running", message |-> NONE, reason |-> NONE,
        pod_ip |-> "10.0.0.1", host_ip |-> "192.168.0.1", start_time |-> "t1",
        node_name |-> "n1", restart_policy |-> "Always",
        service_account_name |-> "default",
        containers |-> <<ContainerApp>>,
        container_statuses |->
            <<[name |-> "app", ready |-> TRUE, restart_count |-> 0,
               image |-> "web:1", image_id |-> "sha:1", container_id |-> "c1",
               state |-> StateRunning]>>,
        conditions |->
            <<[type |-> "Ready", status |-> "True", reason |-> NONE,
               message |-> NONE, last_transition_time |-> "t1"]>>],
       [name |-> "duo", namespace |-> NsOps, uid |-> "u2", created |-> "t0",
        labels |-> <<>>, annotations |-> <<>>,
        phase |-> "Pending", message |-> NONE, reason |-> NONE,
        pod_ip |-> NONE, host_ip |-> "192.168.0.2", start_time |-> NONE,
        node_name |-> "n2", restart_policy |-> "Always",
        service_account_name |-> "default",
        containers |-> <<ContainerApp, ContainerSidecar>>,
        container_statuses |->
            <<[name |-> "app", ready |-> TRUE, restart_count |-> 1,
               image |-> "web:1", image_id |-> "sha:1", container_id |-> "c2",
               state |-> StateRunning],
              [name |-> "sidecar", ready |-> FALSE, restart_count |-> 3,
               image |-> "proxy:2", image_id |-> "sha:2", container_id |-> "c3",
               state |-> StateWaiting]>>,
        conditions |-> <<>>],
       [name |-> "job", namespace |-> NsDev, uid |-> "u3", created |-> "t0",
        labels |-> <<<<"app", "batch">>>>, annotations |-> <<>>,
        phase |-> "Pending", message |-> NONE, reason |-> NONE,
        pod_ip |-> NONE, host_ip |-> NONE, start_time |-> NONE,
        node_name |-> NONE, restart_policy |-> "Never",
        service_account_name |-> "default",
        containers |->
            [i \in DOMAIN JobSteps |-> [ContainerSidecar EXCEPT !.name = JobSteps[i]]],
        container_statuses |->
            [i \in DOMAIN JobSteps |->
                [name |-> JobSteps[i], ready |-> FALSE, restart_count |-> 0,
                 image |-> "proxy:2", image_id |-> "sha:2",
                 container_id |-> NONE, state |-> JobStates[i]]],
        conditions |-> <<>>] >>

\* A label key is a sequence of segments, so that the role prefix can be
\* found inside it and cut out of it.
RolePrefix == "node-role.kubernetes.io/"

ClusterNodes ==
    << [name |-> "n1",
        labels |-> <<[key |-> <<RolePrefix, "control-plane">>, value |-> ""],
                     [key |-> <<"kubernetes.io/os">>, value |-> "linux"]>>,
        conditions |-> <<[type |-> "Ready", status |-> "True"],
                         [type |-> "DiskPressure", status |-> "False"]>>,
        node_info |-> [kubelet_version |-> "v1.30", operating_system |-> "linux",
                       architecture |-> "amd64"],
        capacity |-> <<<<"cpu", "4">>, <<"memory", "8Gi">>, <<"pods", "110">>>>,
        allocatable |-> <<<<"cpu", "3">>>>],
       [name |-> "n2", labels |-> <<>>,
        conditions |-> <<[type |-> "Ready", status |-> "Unknown"]>>,
        node_info |-> NoneObj, capacity |-> <<>>, allocatable |-> <<>>],
       [name |-> "n3",
        labels |-> <<[key |-> <<"my.", RolePrefix, "gpu">>, value |-> "true"]>>,
        conditions |-> <<[type |-> "Ready", status |-> "True"]>>,
        node_info |-> NoneObj, capacity |-> <<>>, allocatable |-> <<>>] >>

ClusterNamespaces ==
    << [name |-> NsDev, phase |-> "Active", creation_timestamp |-> "t0",
        labels |-> <<<<"team", "a">>>>],
       [name |-> NsOps, phase |-> "Active", creation_timestamp |-> "t0",
        labels |-> <<>>] >>

\* A target port or node port of NONE_INT is None.
ClusterServices ==
    << [name |-> "web", namespace |-> NsDev, type |-> "LoadBalancer",
        cluster_ip |-> "10.1.0.1", external_i_ps |-> <<>>,
        ports |-> <<[name |-> "http", protocol |-> "TCP", port |-> 80,
                     target_port |-> 8080, node_port |-> 30080],
                    [name |-> NONE, protocol |-> "TCP", port |-> 443,
                     target_port |-> 0, node_port |-> NONE_INT]>>,
        has_load_balancer |-> TRUE,
        ingress |-> <<[ip |-> "1.2.3.4"], [ip |-> NONE], [ip |-> ""]>>],
       [name |-> "db", namespace |-> NsOps, type |-> "ClusterIP",
        cluster_ip |-> "10.1.0.2", external_i_ps |-> <<"5.6.7.8">>,
        ports |-> <<>>, has_load_balancer |-> TRUE, ingress |-> <<>>] >>

ClusterDeployments ==
    << [name |-> "web", namespace |-> NsDev, replicas |-> 2,
        ready_replicas |-> 2, available_replicas |-> 2, updated_replicas |-> 2,
        labels |-> <<<<"app", "web">>>>,
        conditions |-> <<[type |-> "Available", status |-> "True",
                          reason |-> "MinimumReplicasAvailable",
                          message |-> "ok"]>>],
       [name |-> "api", namespace |-> NsOps, replicas |-> 1,
        ready_replicas |-> NONE_INT, available_replicas |-> 0,
        updated_replicas |-> NONE_INT, labels |-> <<>>, conditions |-> <<>>],
       [name |-> "cron", namespace |-> NsOps, replicas |-> 0,
        ready_replicas |-> 0, available_replicas |-> 0, updated_replicas |-> 0,
        labels |-> <<>>, conditions |-> <<>>] >>

(***************************************************************************)
(* The API server.  A remote call is a record naming the client method,    *)
(* its keyword arguments and, as `via`, the configuration of the client    *)
(* that issued it.  A fault is what the environment does to the call:      *)
(* [kind |-> "ok"], an ApiException or any other exception.                *)
(***************************************************************************)

MapSeq(F(_), seq) == [i \in DOMAIN seq |-> F(seq[i])]

\* dict.get(k, default) on a dict given as a sequence of <<key, value>>.
Get(d, k, default) ==
    IF \E i \in DOMAIN d : d[i][1] = k
    THEN d[CHOOSE i \in DOMAIN d : d[i][1] = k /\ \A j \in DOMAIN d : d[j][1] = k => j <= i][2]
    ELSE default

\* The bodies of the server's own 404 and 400 answers.
BodyPodNotFound == <<"p", "o", "d", " ", "n", "o", "t", " ", "f", "o", "u", "n", "d">>
BodyContainerNotValid ==
    <<"c", "o", "n", "t", "a", "i", "n", "e", "r", " ", "i", "s", " ", "n",
      "o", "t", " ", "v", "a", "l", "i", "d", " ", "f", "o", "r", " ", "p",
      "o", "d">>

NoFault == [kind |-> "ok"]
ApiFault(status, reason, body) ==
    [kind |-> "api", status |-> status, reason |-> reason, body |-> body]
OtherFault(text) == [kind |-> "other", text |-> <<text>>]

\* The server's label-selector filter.
SelectorMatches(sel, labels) ==
    CASE sel = NONE        -> TRUE
      [] sel = "app=web"   -> \E i \in DOMAIN labels : labels[i] = <<"app", "web">>
      [] OTHER             -> FALSE

\* The items a list call returns when it is served.
ListedItems(call) ==
    CASE call.api = "list_pod_for_all_namespaces" ->
            SelectSeq(ClusterPods, LAMBDA o : SelectorMatches(call.label_selector, o.labels))
      [] call.api = "list_namespaced_pod" ->
            SelectSeq(ClusterPods, LAMBDA o : o.namespace = call.namespace
                          /\ SelectorMatches(call.label_selector, o.labels))
      [] call.api = "list_node" -> ClusterNodes
      [] call.api = "list_namespace" -> ClusterNamespaces
      [] call.api = "list_service_for_all_namespaces" -> ClusterServices
      [] call.api = "list_namespaced_service" ->
            SelectSeq(ClusterServices, LAMBDA o : o.namespace = call.namespace)
      [] call.api = "list_deployment_for_all_namespaces" -> ClusterDeployments
      [] call.api = "list_namespaced_deployment" ->
            SelectSeq(ClusterDeployments, LAMBDA o : o.namespace = call.namespace)

\* The response to a list call.
ServeList(call, fault) ==
    IF fault.kind = "ok" THEN [kind |-> "ok", items |-> ListedItems(call)]
    ELSE fault

(***************************************************************************)
(* The error records every tool returns from its two except clauses.       *)
(***************************************************************************)

ApiErrorRecord(e) ==
    [status |-> "error",
     error_message |-> <<"Kubernetes API error: ", e.reason>>,
     error_code |-> e.status]

GenericErrorRecordWithConfigInfo(prefix, text) ==
    [status |-> "error", error_message |-> <<prefix>> \o text,
     config_info |-> <<>>]

GenericErrorRecord(prefix, text) ==
    [status |-> "error", error_message |-> <<prefix>> \o text]

\* The first statement of every tool, `config_status =
\* load_kubernetes_config()`: no explicit path is passed.
LoadConfig(kubeEnv, load, prev) ==
    load_kubernetes_config(NONE, FALSE, kubeEnv, load, prev)

\* An exception escaping load_kubernetes_config lands in the tool's except
\* clauses: an ApiException in `except ApiException`, which comes first, any
\* other in `except Exception`.  No client is built and no remote call is
\* issued.
ConfigRaised(prefix, cfg) ==
    [result |-> IF cfg.api.kind = "api" THEN ApiErrorRecord(cfg.api)
                ELSE GenericErrorRecord(prefix, cfg.exc),
     calls |-> <<>>, config |-> cfg.config]

\* What a call leaves when an exception reaches the caller.
Raises(exception) == [raised |-> exception]

\* The tool ran its query q through a client built right after the load.
Ran(cfg, q) == [result |-> q.result, calls |-> q.calls, config |-> cfg.config]

(***************************************************************************)
(* get_pods                                                                *)
(***************************************************************************)

PodInfo(pod) ==
    LET info == [name |-> pod.name, namespace |-> pod.namespace,
                 status |-> pod.phase, pod_ip |-> pod.pod_ip,
                 node |-> pod.node_name, containers |-> Len(pod.containers),
                 labels |-> pod.labels]
        Brief(cs) == [name |-> cs.name, ready |-> cs.ready,
                      restart_count |-> cs.restart_count]
    IN IF pod.container_statuses # <<>>
       THEN info @@ [container_statuses |-> MapSeq(Brief, pod.container_statuses)]
       ELSE info

PodsCallWatching(v1, namespace, label_selector) ==
    IF Lower(namespace) = StrAll
    THEN [api |-> "list_pod_for_all_namespaces", watch |-> TRUE,
          label_selector |-> label_selector, via |-> v1]
    ELSE [api |-> "list_namespaced_pod", namespace |-> namespace,
          watch |-> TRUE, label_selector |-> label_selector, via |-> v1]

PodsCall(v1, namespace, label_selector) ==
    IF Lower(namespace) = StrAll
    THEN [api |-> "list_pod_for_all_namespaces", watch |-> FALSE,
          label_selector |-> label_selector, via |-> v1]
    ELSE [api |-> "list_namespaced_pod", namespace |-> namespace,
          watch |-> FALSE, label_selector |-> label_selector, via |-> v1]

get_pods_query(config_status, v1, namespace, label_selector, fault) ==
    LET call == PodsCall(v1, namespace, label_selector)
        pods == ServeList(call, fault)
    IN [calls |-> <<call>>,
        result |->
          IF pods.kind = "ok"
          THEN LET pod_list == MapSeq(PodInfo, pods.items) IN
               [status |-> "success", config_info |-> config_status,
                pod_count |-> Len(pod_list), pods |-> pod_list]
          ELSE IF pods.kind = "api" THEN ApiErrorRecord(pods)
          ELSE GenericErrorRecord("Error listing pods: ", pods.text)]

get_pods(namespace, label_selector, kubeEnv, load, prev, fault) ==
    LET cfg == LoadConfig(kubeEnv, load, prev) IN
    IF cfg.raised THEN ConfigRaised("Error listing pods: ", cfg)
    ELSE Ran(cfg, get_pods_query(cfg.status, cfg.config, namespace, label_selector, fault))

(***************************************************************************)
(* get_nodes                                                               *)
(***************************************************************************)

\* The dict built by `conditions[condition.type] = condition.status`, as a
\* sequence of <<type, status>> pairs (Get reads the last pair of a key).
ConditionMap(conds) == [i \in DOMAIN conds |-> <<conds[i].type, conds[i].status>>]

\* The roles one label key contributes: the key with the prefix cut out, if
\* the prefix occurs in the key and something is left.
RolesOfKey(key) ==
    LET role == SelectSeq(key, LAMBDA seg : seg # RolePrefix) IN
    IF (\E i \in DOMAIN key : key[i] = RolePrefix) /\ role # <<>>
    THEN <<role>> ELSE <<>>

RECURSIVE RolesOfLabels(_)
RolesOfLabels(labels) ==
    IF labels = <<>> THEN <<>>
    ELSE RolesOfKey(Head(labels).key) \o RolesOfLabels(Tail(labels))

NodeInfo(node) ==
    LET conditions == ConditionMap(node.conditions)
        roles == RolesOfLabels(node.labels)
        Sub(d) == [cpu |-> Get(d, "cpu", "Unknown"),
                   memory |-> Get(d, "memory", "Unknown"),
                   pods |-> Get(d, "pods", "Unknown")]
    IN [name |-> node.name,
        status |-> IF Get(conditions, "Ready", NONE) = "True"
                   THEN "Ready" ELSE "NotReady",
        roles |-> IF roles = <<>> THEN << <<"worker">> >> ELSE roles,
        version |-> IF node.node_info # NoneObj
                    THEN node.node_info.kubelet_version ELSE "Unknown",
        os |-> IF node.node_info # NoneObj
               THEN node.node_info.operating_system ELSE "Unknown",
        architecture |-> IF node.node_info # NoneObj
                         THEN node.node_info.architecture ELSE "Unknown",
        capacity |-> Sub(node.capacity),
        allocatable |-> Sub(node.allocatable),
        conditions |-> conditions]

NodesCall(v1) == [api |-> "list_node", watch |-> FALSE, via |-> v1]

get_nodes_query(config_status, v1, fault) ==
    LET call == NodesCall(v1)
        nodes == ServeList(call, fault)
    IN [calls |-> <<call>>,
        result |->
          IF nodes.kind = "ok"
          THEN LET node_list == MapSeq(NodeInfo, nodes.items) IN
               [status |-> "success", config_info |-> config_status,
                node_count |-> Len(node_list), nodes |-> node_list]
          ELSE IF nodes.kind = "api" THEN ApiErrorRecord(nodes)
          ELSE GenericErrorRecord("Error listing nodes: ", nodes.text)]

get_nodes(kubeEnv, load, prev, fault) ==
    LET cfg == LoadConfig(kubeEnv, load, prev) IN
    IF cfg.raised THEN ConfigRaised("Error listing nodes: ", cfg)
    ELSE Ran(cfg, get_nodes_query(cfg.status, cfg.config, fault))

(***************************************************************************)
(* get_namespaces                                                          *)
(***************************************************************************)

NamespaceInfo(ns) ==
    [name |-> ns.name, status |-> ns.phase,
     created |-> StrOf(ns.creation_timestamp), labels |-> ns.labels]

NamespacesCall(v1) == [api |-> "list_namespace", watch |-> FALSE, via |-> v1]

get_namespaces_query(config_status, v1, fault) ==
    LET call == NamespacesCall(v1)
        namespaces == ServeList(call, fault)
    IN [calls |-> <<call>>,
        result |->
          IF namespaces.kind = "ok"
          THEN LET namespace_list == MapSeq(NamespaceInfo, namespaces.items) IN
               [status |-> "success", config_info |-> config_status,
                namespace_count |-> Len(namespace_list),
                namespaces |-> namespace_list]
          ELSE IF namespaces.kind = "api" THEN ApiErrorRecord(namespaces)
          ELSE GenericErrorRecord("Error listing namespaces: ", namespaces.text)]

get_namespaces(kubeEnv, load, prev, fault) ==
    LET cfg == LoadConfig(kubeEnv, load, prev) IN
    IF cfg.raised THEN ConfigRaised("Error listing namespaces: ", cfg)
    ELSE Ran(cfg, get_namespaces_query(cfg.status, cfg.config, fault))

(***************************************************************************)
(* get_services                                                            *)
(***************************************************************************)

PortInfo(port) ==
    [name |-> port.name, protocol |-> port.protocol, port |-> port.port,
     target_port |-> IF port.target_port # NONE_INT /\ port.target_port # 0
                     THEN StrOf(port.target_port) ELSE <<>>,
     node_port |-> port.node_port]

ServiceInfo(svc) ==
    LET info == [name |-> svc.name, namespace |-> svc.namespace,
                 type |-> svc.type, cluster_ip |-> svc.cluster_ip,
                 external_ip |-> svc.external_i_ps,
                 ports |-> MapSeq(PortInfo, svc.ports)]
        Ip(ing) == ing.ip
    IN IF svc.type = "LoadBalancer" /\ svc.has_load_balancer /\ svc.ingress # <<>>
       THEN info @@ [load_balancer_ip |->
                        MapSeq(Ip, SelectSeq(svc.ingress, LAMBDA ing : Truthy(ing.ip)))]
       ELSE info

ServicesCall(v1, namespace) ==
    IF Lower(namespace) = StrAll
    THEN [api |-> "list_service_for_all_namespaces", watch |-> FALSE, via |-> v1]
    ELSE [api |-> "list_namespaced_service", namespace |-> namespace,
          watch |-> FALSE, via |-> v1]

get_services_query(config_status, v1, namespace, fault) ==
    LET call == ServicesCall(v1, namespace)
        services == ServeList(call, fault)
    IN [calls |-> <<call>>,
        result |->
          IF services.kind = "ok"
          THEN LET service_list == MapSeq(ServiceInfo, services.items) IN
               [status |-> "success", config_info |-> config_status,
                service_count |-> Len(service_list), services |-> service_list]
          ELSE IF services.kind = "api" THEN ApiErrorRecord(services)
          ELSE GenericErrorRecord("Error listing services: ", services.text)]

get_services(namespace, kubeEnv, load, prev, fault) ==
    LET cfg == LoadConfig(kubeEnv, load, prev) IN
    IF cfg.raised THEN ConfigRaised("Error listing services: ", cfg)
    ELSE Ran(cfg, get_services_query(cfg.status, cfg.config, namespace, fault))

(***************************************************************************)
(* get_deployments                                                         *)
(***************************************************************************)

DeploymentInfo(dep) ==
    LET Cond(c) == [type |-> c.type, status |-> c.status, reason |-> c.reason,
                    message |-> c.message]
    IN [name |-> dep.name, namespace |-> dep.namespace,
        replicas |-> dep.replicas,
        ready_replicas |-> OrZero(dep.ready_replicas),
        available_replicas |-> OrZero(dep.available_replicas),
        updated_replicas |-> OrZero(dep.updated_replicas),
        labels |-> dep.labels,
        conditions |-> MapSeq(Cond, dep.conditions)]

DeploymentsCall(apps_v1, namespace) ==
    IF Lower(namespace) = StrAll
    THEN [api |-> "list_deployment_for_all_namespaces", watch |-> FALSE,
          via |-> apps_v1]
    ELSE [api |-> "list_namespaced_deployment", namespace |-> namespace,
          watch |-> FALSE, via |-> apps_v1]

get_deployments_query(config_status, apps_v1, namespace, fault) ==
    LET call == DeploymentsCall(apps_v1, namespace)
        deployments == ServeList(call, fault)
    IN [calls |-> <<call>>,
        result |->
          IF deployments.kind = "ok"
          THEN LET deployment_list == MapSeq(DeploymentInfo, deployments.items) IN
               [status |-> "success", config_info |-> config_status,
                deployment_count |-> Len(deployment_list),
                deployments |-> deployment_list]
          ELSE IF deployments.kind = "api" THEN ApiErrorRecord(deployments)
          ELSE GenericErrorRecord("Error listing deployments: ", deployments.text)]

get_deployments(namespace, kubeEnv, load, prev, fault) ==
    LET cfg == LoadConfig(kubeEnv, load, prev) IN
    IF cfg.raised THEN ConfigRaised("Error listing deployments: ", cfg)
    ELSE Ran(cfg, get_deployments_query(cfg.status, cfg.config, namespace, fault))

(***************************************************************************)
(* describe_pod                                                            *)
(***************************************************************************)

\* The pods a read of (name, namespace) finds.
FoundPods(name, namespace) ==
    SelectSeq(ClusterPods, LAMBDA o : o.name = name /\ o.namespace = namespace)

\* The response to read_namespaced_pod: the server answers 404 for a pod
\* that does not exist.
ServeRead(call, fault) ==
    IF fault.kind # "ok" THEN fault
    ELSE IF FoundPods(call.name, call.namespace) = <<>>
    THEN ApiFault(404, "Not Found", BodyPodNotFound)
    ELSE [kind |-> "ok", pod |-> FoundPods(call.name, call.namespace)[1]]

ContainerInfo(container) ==
    LET Port(p) == [container_port |-> p.container_port, protocol |-> p.protocol]
        Env(e) == [name |-> e.name, value |-> e.value]
        requests == IF container.requests # <<>>
                    THEN [requests |-> container.requests] ELSE <<>>
        limits == IF container.limits # <<>>
                  THEN [limits |-> container.limits] ELSE <<>>
    IN [name |-> container.name, image |-> container.image,
        ports |-> MapSeq(Port, container.ports),
        env |-> MapSeq(Env, SelectSeq(container.env, LAMBDA e : Truthy(e.value))),
        resources |-> requests @@ limits]

\* A status entry that reports every state field that is set.
StatusInfoAllVariants(cs) ==
    LET info == [name |-> cs.name, ready |-> cs.ready,
                 restart_count |-> cs.restart_count, image |-> cs.image,
                 image_id |-> cs.image_id, container_id |-> cs.container_id]
        running == IF cs.state.running # NoneObj
                   THEN [running |->
                           [started_at |-> StrOf(cs.state.running.started_at)]]
                   ELSE <<>>
        terminated == IF cs.state.terminated # NoneObj
                      THEN [terminated |-> cs.state.terminated] ELSE <<>>
        waiting == IF cs.state.waiting # NoneObj
                   THEN [waiting |-> cs.state.waiting] ELSE <<>>
    IN IF cs.state = NoneObj \/ cs.state = StateUnset THEN info
       ELSE info @@ [state |-> running @@ terminated @@ waiting]

StatusInfo(cs) ==
    LET info == [name |-> cs.name, ready |-> cs.ready,
                 restart_count |-> cs.restart_count, image |-> cs.image,
                 image_id |-> cs.image_id, container_id |-> cs.container_id]
    IN IF cs.state = NoneObj THEN info
       ELSE IF cs.state.running # NoneObj
       THEN info @@ [state |-> [running |->
                        [started_at |-> StrOf(cs.state.running.started_at)]]]
       ELSE IF cs.state.terminated # NoneObj
       THEN info @@ [state |-> [terminated |->
                        [exit_code |-> cs.state.terminated.exit_code,
                         reason |-> cs.state.terminated.reason,
                         message |-> cs.state.terminated.message]]]
       ELSE IF cs.state.waiting # NoneObj
       THEN info @@ [state |-> [waiting |->
                        [reason |-> cs.state.waiting.reason,
                         message |-> cs.state.waiting.message]]]
       ELSE info

PodDetails(pod) ==
    LET Cond(c) == [type |-> c.type, status |-> c.status, reason |-> c.reason,
                    message |-> c.message,
                    last_transition_time |-> StrOf(c.last_transition_time)]
        details ==
            [name |-> pod.name, namespace |-> pod.namespace, uid |-> pod.uid,
             created |-> StrOf(pod.created), labels |-> pod.labels,
             annotations |-> pod.annotations,
             status |-> [phase |-> pod.phase, message |-> pod.message,
                         reason |-> pod.reason, pod_ip |-> pod.pod_ip,
                         host_ip |-> pod.host_ip,
                         start_time |-> IF pod.start_time # NONE
                                        THEN StrOf(pod.start_time) ELSE <<>>],
             spec |-> [node_name |-> pod.node_name,
                       restart_policy |-> pod.restart_policy,
                       service_account |-> pod.service_account_name,
                       containers |-> MapSeq(ContainerInfo, pod.containers)],
             conditions |-> MapSeq(Cond, pod.conditions),
             events |-> <<>>]
    IN IF pod.container_statuses # <<>>
       THEN details @@ [container_statuses |->
                            MapSeq(StatusInfo, pod.container_statuses)]
       ELSE details

ReadPodCall(v1, name, namespace) ==
    [api |-> "read_namespaced_pod", name |-> name, namespace |-> namespace,
     via |-> v1]

describe_pod_query(config_status, v1, name, namespace, fault) ==
    LET call == ReadPodCall(v1, name, namespace)
        pod == ServeRead(call, fault)
    IN [calls |-> <<call>>,
        result |->
          IF pod.kind = "ok"
          THEN [status |-> "success", config_info |-> config_status,
                pod |-> PodDetails(pod.pod)]
          ELSE IF pod.kind = "api" THEN ApiErrorRecord(pod)
          ELSE GenericErrorRecord("Error getting pod details: ", pod.text)]

describe_pod(name, namespace, kubeEnv, load, prev, fault) ==
    LET cfg == LoadConfig(kubeEnv, load, prev) IN
    IF cfg.raised THEN ConfigRaised("Error getting pod details: ", cfg)
    ELSE Ran(cfg, describe_pod_query(cfg.status, cfg.config, name, namespace, fault))

(***************************************************************************)
(* get_logs                                                                *)
(***************************************************************************)

\* Log text is a sequence of code points; these are the ones str.strip()
\* removes (the characters for which str.isspace() holds).
WhitespaceCodes ==
    (9..13) \cup (28..32) \cup {133, 160, 5760} \cup (8192..8202)
        \cup {8232, 8233, 8239, 8287, 12288}
IsSpace(c) == c \in WhitespaceCodes

\* The code point of "\n", the separator of logs.split('\n').
Newline == 10

\* str.split('\n'): the pieces between the newlines, one more than newlines.
RECURSIVE SplitLines(_)
SplitLines(text) ==
    IF \A i \in DOMAIN text : text[i] # Newline THEN <<text>>
    ELSE LET i == CHOOSE k \in DOMAIN text :
                      text[k] = Newline /\ \A j \in 1..(k - 1) : text[j] # Newline
         IN <<SubSeq(text, 1, i - 1)>> \o SplitLines(SubSeq(text, i + 1, Len(text)))

\* A logs.strip() that strips nothing.
StripNothing(text) == text

\* str.strip(): the text without its leading and trailing whitespace.
RECURSIVE Strip(_)
Strip(text) ==
    IF text = <<>> THEN text
    ELSE IF IsSpace(Head(text)) THEN Strip(Tail(text))
    ELSE IF IsSpace(text[Len(text)]) THEN Strip(SubSeq(text, 1, Len(text) - 1))
    ELSE text

\* The texts the outer handler of get_logs looks for in str(e.body).lower().
PreviousTerminatedContainer ==
    <<"p", "r", "e", "v", "i", "o", "u", "s", " ", "t", "e", "r", "m", "i",
      "n", "a", "t", "e", "d", " ", "c", "o", "n", "t", "a", "i", "n", "e",
      "r">>
ContainerWord == <<"c", "o", "n", "t", "a", "i", "n", "e", "r">>

\* sub occurs in seq as a contiguous run (Python's `sub in seq` on text).
Occurs(sub, seq) ==
    \E i \in 0..(Len(seq) - Len(sub)) : SubSeq(seq, i + 1, i + Len(sub)) = sub

\* f"{container_names}": the printed list.
ListText(names) == <<"[">> \o names \o <<"]">>

ContainerNames(pod) == [i \in DOMAIN pod.containers |-> pod.containers[i].name]

\* The response to read_namespaced_pod_log: the server answers 404 for a
\* missing pod and 400 for a container the pod does not have; otherwise it
\* returns the text the container has written.
ServeLog(call, fault, text) ==
    IF fault.kind # "ok" THEN fault
    ELSE IF FoundPods(call.name, call.namespace) = <<>>
    THEN ApiFault(404, "Not Found", BodyPodNotFound)
    ELSE IF \A i \in DOMAIN FoundPods(call.name, call.namespace)[1].containers :
                FoundPods(call.name, call.namespace)[1].containers[i].name
                    # call.container
    THEN ApiFault(400, "Bad Request", BodyContainerNotValid)
    ELSE [kind |-> "ok", logs |-> text]

\* f"Pod '{pod_name}' not found in namespace '{namespace}'"
PodNotFoundText(pod_name, namespace) ==
    <<"Pod '", pod_name, "' ", "not found", " in namespace '">>
        \o namespace \o <<"'">>

\* The container the log read names: the caller's, or the pod's first when
\* the caller named none (lines 463-465).
ChosenContainer(container, container_names) ==
    IF ~Truthy(container) /\ container_names # <<>>
    THEN container_names[1] ELSE container

\* The multiple-containers test of line 456.
MustNameContainerNever(container, container_names) == FALSE

MustNameContainer(container, container_names) ==
    ~Truthy(container) /\ Len(container_names) > 1

\* Keyword arguments that leave out an option given as 0.
LogCallTruthy(v1, pod_name, namespace, container, previous, tail_lines, since_seconds, timestamps) ==
    [api |-> "read_namespaced_pod_log", name |-> pod_name,
     namespace |-> namespace, container |-> container,
     previous |-> previous, timestamps |-> timestamps, via |-> v1]
      @@ (IF tail_lines > 0 THEN [tail_lines |-> tail_lines] ELSE <<>>)
      @@ (IF since_seconds > 0 THEN [since_seconds |-> since_seconds] ELSE <<>>)

\* The keyword arguments of the log read (lines 475-487).
LogCall(v1, pod_name, namespace, container, previous, tail_lines, since_seconds, timestamps) ==
    LET kwargs == [api |-> "read_namespaced_pod_log", name |-> pod_name,
                   namespace |-> namespace, container |-> container,
                   previous |-> previous, timestamps |-> timestamps,
                   via |-> v1]
        tail == IF tail_lines # NONE_INT
                THEN [tail_lines |-> tail_lines] ELSE <<>>
        since == IF since_seconds # NONE_INT
                 THEN [since_seconds |-> since_seconds] ELSE <<>>
    IN kwargs @@ tail @@ since

\* The success record of lines 496-520.
LogResponse(config_status, pod_name, namespace, container, previous, tail_lines, since_seconds, timestamps, logs) ==
    LET log_lines == IF logs # <<>> THEN SplitLines(logs) ELSE <<>>
        response == [status |-> "success", config_info |-> config_status,
                     pod |-> pod_name, namespace |-> namespace,
                     container |-> container,
                     log_lines_count |-> Len(log_lines), logs |-> logs]
        tail == IF tail_lines # NONE_INT /\ tail_lines # 0
                THEN [tail_lines_requested |-> tail_lines] ELSE <<>>
        since == IF since_seconds # NONE_INT /\ since_seconds # 0
                 THEN [since_seconds |-> since_seconds] ELSE <<>>
        prev == IF previous THEN [from_previous_container |-> TRUE] ELSE <<>>
        stamps == IF timestamps THEN [timestamps_included |-> TRUE] ELSE <<>>
        message == IF logs = <<>> \/ Strip(logs) = <<>>
                   THEN [message |-> <<"No logs found. The container might be starting up or not producing any output.">>]
                   ELSE <<>>
    IN response @@ tail @@ since @@ prev @@ stamps @@ message

\* The outer handler without its friendlier messages.
LogApiErrorRecordNoRemap(e, pod_name, namespace, container, container_names) ==
    [status |-> "error", error_message |-> <<"Failed to get logs: ", e.reason>>,
     error_code |-> e.status]

\* The local variable container_names before line 453 has assigned it.
Unbound == <<"<unbound>">>

\* The outer `except ApiException` of get_logs (lines 522-538): the error
\* record, or the UnboundLocalError of line 530 when the handler reads
\* container_names before the pod read has assigned it.
LogApiErrorRecord(e, pod_name, namespace, container, container_names) ==
    LET body == Lower(e.body)
        reads_names == /\ e.status = 400
                       /\ ~Occurs(PreviousTerminatedContainer, body)
                       /\ Occurs(ContainerWord, body)
        error_msg ==
            IF e.status = 400
            THEN IF Occurs(PreviousTerminatedContainer, body)
                 THEN <<"No previous terminated container found for this pod">>
                 ELSE IF Occurs(ContainerWord, body)
                 THEN <<"Container '", container,
                        "' not found in pod. Available containers: ">>
                          \o ListText(container_names)
                 ELSE <<"Failed to get logs: ", e.reason>>
            ELSE IF e.status = 404
            THEN PodNotFoundText(pod_name, namespace)
            ELSE <<"Failed to get logs: ", e.reason>>
    IN IF reads_names /\ container_names = Unbound
       THEN Raises(<<"UnboundLocalError", "container_names">>)
       ELSE [status |-> "error", error_message |-> error_msg,
             error_code |-> e.status]

\* An exception escaping load_kubernetes_config in get_logs: the handlers of
\* lines 522-543 run while container_names is not yet assigned.
LogConfigRaised(cfg, pod_name, namespace, container) ==
    [result |-> IF cfg.api.kind = "api"
                THEN LogApiErrorRecord(cfg.api, pod_name, namespace, container,
                                       Unbound)
                ELSE GenericErrorRecord("Error getting logs: ", cfg.exc),
     calls |-> <<>>, config |-> cfg.config]

\* Lines 448-472 of get_logs: the pod read and the choice of the container.
\* Either get_logs returns here (returned: the pod read failed, or the pod
\* has several containers and none was named), or it goes on to the log read
\* with the chosen container.
get_logs_pod_read(v1, pod_name, namespace, container, podFault) ==
    LET podCall == ReadPodCall(v1, pod_name, namespace)
        pod == ServeRead(podCall, podFault)
    IN
    IF pod.kind = "api"
    THEN [returned |-> TRUE, calls |-> <<podCall>>,
          result |-> [status |-> "error",
                      error_message |-> PodNotFoundText(pod_name, namespace),
                      error_code |-> pod.status]]
    ELSE IF pod.kind = "other"
    THEN [returned |-> TRUE, calls |-> <<podCall>>,
          result |-> GenericErrorRecord("Error getting logs: ", pod.text)]
    ELSE
    LET container_names == ContainerNames(pod.pod) IN
    IF MustNameContainer(container, container_names)
    THEN [returned |-> TRUE, calls |-> <<podCall>>,
          result |-> [status |-> "error",
                      error_message |->
                          <<"Pod has multiple containers. Please specify one: ">>
                              \o ListText(container_names),
                      containers |-> container_names]]
    ELSE [returned |-> FALSE, calls |-> <<podCall>>,
          container |-> ChosenContainer(container, container_names),
          container_names |-> container_names]

\* Lines 474-543 of get_logs: the log read with the chosen container, and
\* the record returned.
get_logs_log_read(config_status, v1, pod_name, namespace, container, container_names, previous, tail_lines, since_seconds, timestamps, logFault, text) ==
    LET logCall == LogCall(v1, pod_name, namespace, container, previous,
                           tail_lines, since_seconds, timestamps)
        logs == ServeLog(logCall, logFault, text)
    IN [call |-> logCall,
        result |->
          IF logs.kind = "ok"
          THEN LogResponse(config_status, pod_name, namespace, container,
                           previous, tail_lines, since_seconds, timestamps,
                           logs.logs)
          ELSE IF logs.kind = "api"
          THEN LogApiErrorRecord(logs, pod_name, namespace, container,
                                 container_names)
          ELSE GenericErrorRecord("Error getting logs: ", logs.text)]

\* get_logs after the configuration is loaded and the client v1 is built.
get_logs_query(config_status, v1, pod_name, namespace, container, previous, tail_lines, since_seconds, timestamps, podFault, logFault, text) ==
    LET first == get_logs_pod_read(v1, pod_name, namespace, container, podFault)
    IN
    IF first.returned
    THEN [calls |-> first.calls, result |-> first.result]
    ELSE
    LET second == get_logs_log_read(config_status, v1, pod_name, namespace,
                                    first.container, first.container_names,
                                    previous, tail_lines, since_seconds,
                                    timestamps, logFault, text)
    IN [calls |-> first.calls \o <<second.call>>, result |-> second.result]

get_logs(pod_name, namespace, container, previous, tail_lines, since_seconds, timestamps, kubeEnv, load, prev, podFault, logFault, text) ==
    LET cfg == LoadConfig(kubeEnv, load, prev) IN
    IF cfg.raised THEN LogConfigRaised(cfg, pod_name, namespace, container)
    ELSE Ran(cfg, get_logs_query(cfg.status, cfg.config, pod_name, namespace,
                             container, previous, tail_lines, since_seconds,
                             timestamps, podFault, logFault, text))

(***************************************************************************)
(* Resolver probe: one call of load_kubernetes_config on every input.      *)
(***************************************************************************)

\* No tool call has returned and not been consumed.
NoCall == [op |-> "none"]

\* The probe's result before the call.
NoResult == [raised |-> FALSE, status |-> <<>>, exc |-> <<>>,
             api |-> NoApiException, config |-> NoConfig, attempts |-> <<>>]

ExplicitPaths == {NONE, "", "/x/kubeconfig"}
KubeEnvValues == {NONE, "", "/env/kubeconfig"}
\* The ApiExceptions a load raises: a server failure, and a rejection whose
\* body speaks of a container.
LoadServerFailure ==
    [kind |-> "api", status |-> 500, reason |-> "Internal Server Error",
     body |-> <<"b", "o", "o", "m">>]
LoadBadRequest ==
    [kind |-> "api", status |-> 400, reason |-> "Bad Request",
     body |-> <<"n", "o", " ", "s", "u", "c", "h", " ", "c", "o", "n", "t",
                "a", "i", "n", "e", "r">>]
LoadApiExceptions == {LoadServerFailure, LoadBadRequest}

\* A load table: how the load of each source ends and, when one ends with
\* an ApiException, which.
AllLoads(outcome, e) ==
    [s \in {"explicit", "env", "incluster", "default", "raises"} |->
        IF s = "raises" THEN e ELSE outcome]

LoadTables ==
    {[s \in {"explicit", "env", "incluster", "default", "raises"} |->
        IF s = "raises" THEN LoadServerFailure ELSE f[s]] :
     f \in [{"explicit", "env", "incluster", "default"} -> LoadOutcomes]}

ResolverInit ==
    /\ rin \in [path : ExplicitPaths, exists : BOOLEAN,
                kubeEnv : KubeEnvValues, load : LoadTables]
    /\ (rin.exists => Truthy(rin.path))
    /\ rpc = "ready"
    /\ rout = NoResult
    /\ KUBECONFIG = NONE /\ defaultCfg = NoConfig /\ last = NoCall
    /\ th = [t \in Callers |-> Idle]

Resolve ==
    /\ rpc = "ready"
    /\ rpc' = "done"
    /\ rout' = load_kubernetes_config(rin.path, rin.exists, rin.kubeEnv,
                                      rin.load, NoConfig)
    /\ UNCHANGED <<rin, toolVars, th>>

ResolverNext == Resolve

SpecResolver == ResolverInit /\ [][ResolverNext]_vars

(***************************************************************************)
(* The tools as the agent calls them, one call at a time.  The environment *)
(* may change between calls: KUBECONFIG is set or unset, and each call     *)
(* finds the configuration files loadable or not and the API server        *)
(* answering or failing.  The library's default configuration persists     *)
(* from call to call.                                                      *)
(***************************************************************************)

MaxTailLines == 2
MaxSinceSeconds == 1

EnvSettings == {NONE, "", "/env/kubeconfig"}
NamespaceArgs ==
    {StrAll, <<"A", "L", "L">>, <<"A", "l", "l">>, NsDev, NsOps,
     <<"D", "e", "v">>, <<"a", "l", "l", "y">>}
SelectorArgs == {NONE, "app=web"}
PodArgs == {<<"solo", NsDev>>, <<"duo", NsOps>>, <<"ghost", NsDev>>}
DescribeArgs == PodArgs \cup {<<"job", NsDev>>}
ContainerArgs == {NONE, "", "app", "sidecar", "nope"}
TailArgs == {NONE_INT} \cup 0..MaxTailLines
SinceArgs == {NONE_INT} \cup 0..MaxSinceSeconds
\* "", " \n", "a\nb", "a\n", "\tx ", "\f" and " \x0b\xa0\n".
LogTexts ==
    {<<>>, <<32, 10>>, <<97, 10, 98>>, <<97, 10>>, <<9, 120, 32>>, <<12>>,
     <<32, 11, 160, 10>>}

\* How the loads of one call end: the outcome lp of the source tried first
\* and, when the fallback runs, the outcome ld of the default file.
OpLoads ==
    {[s \in {"explicit", "env", "incluster", "default", "raises"} |->
        IF s = "raises" THEN p[3] ELSE IF s = "default" THEN p[2] ELSE p[1]] :
     p \in {<<"ok", "ok", NoApiException>>,
            <<"other_exc", "ok", NoApiException>>} \cup
           {<<"api_exc", "ok", e>> : e \in LoadApiExceptions} \cup
           {<<"config_exc", ld, LoadServerFailure>> : ld \in LoadOutcomes}}

ApiFaults ==
    {ApiFault(403, "Forbidden", <<"f", "o", "r", "b", "i", "d", "d", "e", "n">>),
     ApiFault(404, "Not Found", <<"n", "o", "t", " ", "f", "o", "u", "n", "d">>),
     ApiFault(500, "Internal Server Error", <<"b", "o", "o", "m">>)}
BadRequests ==
    {ApiFault(400, "Bad Request",
        <<"P", "r", "e", "v", "i", "o", "u", "s", " ", "t", "e", "r", "m", "i",
          "n", "a", "t", "e", "d", " ", "c", "o", "n", "t", "a", "i", "n", "e",
          "r", " ", "a", "p", "p", " ", "n", "o", "t", " ", "f", "o", "u", "n",
          "d">>),
     ApiFault(400, "Bad Request",
        <<"t", "h", "e", " ", "P", "R", "E", "V", "I", "O", "U", "S", " ", "T",
          "E", "R", "M", "I", "N", "A", "T", "E", "D", " ", "C", "O", "N", "T",
          "A", "I", "N", "E", "R", "S", " ", "l", "i", "s", "t">>),
     ApiFault(400, "Bad Request",
        <<"C", "O", "N", "T", "A", "I", "N", "E", "R", " ", "a", "p", "p", " ",
          "i", "s", " ", "w", "a", "i", "t", "i", "n", "g">>),
     ApiFault(400, "Bad Request",
        <<"c", "o", "n", "t", "a", "i", "n", "e", "r", "s", " ", "m", "i", "s",
          "s", "i", "n", "g">>),
     ApiFault(400, "Bad Request",
        <<"i", "n", "v", "a", "l", "i", "d", " ", "s", "i", "n", "c", "e", "S",
          "e", "c", "o", "n", "d", "s">>)}
Faults == {NoFault, OtherFault("connection refused")} \cup ApiFaults

\* The faults of the two remote calls of get_logs and the text served: the
\* log read is reached only when the pod read was served.
LogFaults ==
    {<<pf, NoFault, <<>>>> : pf \in Faults \ {NoFault}} \cup
    {<<NoFault, lf, <<>>>> : lf \in (Faults \ {NoFault}) \cup BadRequests} \cup
    {<<NoFault, NoFault, text>> : text \in LogTexts}

\* A call returns: `last` keeps its arguments, what the environment did to it
\* (load: the outcomes of the configuration loads, faults: of the remote
\* calls), the remote calls it issued and the record it returned.
Returns(op, args, load, faults, r) ==
    /\ last' = [op |-> op, args |-> args, load |-> load, faults |-> faults,
                result |-> r.result, calls |-> r.calls]
    /\ defaultCfg' = r.config
    /\ UNCHANGED <<KUBECONFIG, probeVars, th>>

SetKubeconfig ==
    /\ last = NoCall
    /\ \E v \in EnvSettings \ {KUBECONFIG} : KUBECONFIG' = v
    /\ UNCHANGED <<defaultCfg, last, probeVars, th>>

CallGetPods ==
    /\ last = NoCall
    /\ \E namespace \in NamespaceArgs, label_selector \in SelectorArgs,
          load \in OpLoads, fault \in Faults :
        Returns("get_pods",
                [namespace |-> namespace, label_selector |-> label_selector],
                load, <<fault>>,
                get_pods(namespace, label_selector, KUBECONFIG, load, defaultCfg, fault))

CallGetNodes ==
    /\ last = NoCall
    /\ \E load \in OpLoads, fault \in Faults :
        Returns("get_nodes", <<>>, load, <<fault>>,
                get_nodes(KUBECONFIG, load, defaultCfg, fault))

CallGetNamespaces ==
    /\ last = NoCall
    /\ \E load \in OpLoads, fault \in Faults :
        Returns("get_namespaces", <<>>, load, <<fault>>,
                get_namespaces(KUBECONFIG, load, defaultCfg, fault))

CallGetServices ==
    /\ last = NoCall
    /\ \E namespace \in NamespaceArgs, load \in OpLoads, fault \in Faults :
        Returns("get_services", [namespace |-> namespace], load, <<fault>>,
                get_services(namespace, KUBECONFIG, load, defaultCfg, fault))

CallGetDeployments ==
    /\ last = NoCall
    /\ \E namespace \in NamespaceArgs, load \in OpLoads, fault \in Faults :
        Returns("get_deployments", [namespace |-> namespace], load, <<fault>>,
                get_deployments(namespace, KUBECONFIG, load, defaultCfg, fault))

CallDescribePod ==
    /\ last = NoCall
    /\ \E target \in DescribeArgs, load \in OpLoads, fault \in Faults :
        Returns("describe_pod", [name |-> target[1], namespace |-> target[2]],
                load, <<fault>>,
                describe_pod(target[1], target[2], KUBECONFIG, load, defaultCfg, fault))

CallGetLogs ==
    /\ last = NoCall
    /\ \E target \in PodArgs, container \in ContainerArgs, previous \in BOOLEAN,
          tail_lines \in TailArgs, since_seconds \in SinceArgs,
          timestamps \in BOOLEAN, load \in OpLoads, f \in LogFaults :
        Returns("get_logs",
                [pod_name |-> target[1], namespace |-> target[2],
                 container |-> container, previous |-> previous,
                 tail_lines |-> tail_lines, since_seconds |-> since_seconds,
                 timestamps |-> timestamps],
                load, f,
                get_logs(target[1], target[2], container, previous, tail_lines,
                         since_seconds, timestamps, KUBECONFIG, load, defaultCfg,
                         f[1], f[2], f[3]))

\* The agent takes the returned record; the next call may start.
TakeResult ==
    /\ last # NoCall
    /\ last' = NoCall
    /\ UNCHANGED <<KUBECONFIG, defaultCfg, probeVars, th>>

Init ==
    /\ KUBECONFIG = NONE
    /\ defaultCfg = NoConfig
    /\ last = NoCall
    /\ rin = [path |-> NONE, exists |-> FALSE, kubeEnv |-> NONE,
              load |-> AllLoads("ok", NoApiException)]
    /\ rpc = "done"
    /\ rout = NoResult
    /\ th = [t \in Callers |-> Idle]

Next ==
    \/ SetKubeconfig
    \/ CallGetPods
    \/ CallGetNodes
    \/ CallGetNamespaces
    \/ CallGetServices
    \/ CallGetDeployments
    \/ CallDescribePod
    \/ CallGetLogs
    \/ TakeResult

Spec == Init /\ [][Next]_vars

(***************************************************************************)
(* Two callers running tools at the same time (the agent runtime may call  *)
(* tools from several threads).  A tool call is cut wherever another       *)
(* thread can run between two of its reads or writes of shared state: each *)
(* read of os.environ, each config.load_* call, the construction of the    *)
(* client and each remote call is a step of its own.  The client binds the *)
(* library's default configuration as it is when the client is built.      *)
(* A caller's `resolved` is the configuration its own load installed        *)
(* (NoConfig when none of its loads succeeded).                             *)
(***************************************************************************)

ConcOps == {"get_pods", "get_logs"}
ConcFaults == {NoFault, OtherFault("connection refused")}

ErrorPrefix(op) ==
    CASE op = "get_pods" -> "Error listing pods: "
      [] op = "get_logs" -> "Error getting logs: "

\* The tool is called with no explicit path; line 46 tests
\* os.environ.get('KUBECONFIG') and picks the branch.
CTestEnv(t) ==
    /\ th[t].pc = "idle"
    /\ \E op \in ConcOps :
        LET prim == PrimarySource(NONE, FALSE, KUBECONFIG) IN
        th' = [th EXCEPT ![t] =
                 IF prim = "env" THEN [pc |-> "env_read", op |-> op]
                 ELSE [pc |-> "primary", op |-> op, source |-> prim,
                       kubeconfig_env |-> NONE]]
    /\ UNCHANGED <<KUBECONFIG, defaultCfg, last, probeVars>>

\* Line 48: kubeconfig_env = os.environ.get('KUBECONFIG'), a second read.
CReadEnv(t) ==
    /\ th[t].pc = "env_read"
    /\ th' = [th EXCEPT ![t] = [pc |-> "primary", op |-> th[t].op,
                                source |-> "env",
                                kubeconfig_env |-> KUBECONFIG]]
    /\ UNCHANGED <<KUBECONFIG, defaultCfg, last, probeVars>>

\* Lines 49 and 53: the load of the chosen source.  On success the library's
\* default configuration is replaced and the status is returned (lines 50,
\* 54); a ConfigException leads to the fallback; any other exception
\* escapes to the tool's except clauses.
CPrimaryLoad(t) ==
    /\ th[t].pc = "primary"
    /\ \E outcome \in LoadOutcomes, e \in LoadApiExceptions :
        LET source == th[t].source
            env == th[t].kubeconfig_env
            cfg == [exc |-> ErrText(source),
                    api |-> IF outcome = "api_exc" THEN e ELSE NoApiException,
                    config |-> defaultCfg]
        IN
        IF outcome = "ok"
        THEN /\ defaultCfg' = LoadedConfig(source, NONE, env)
             /\ th' = [th EXCEPT ![t] =
                         [pc |-> "loaded", op |-> th[t].op,
                          config_status |-> LoadedStatus(source, NONE, env),
                          resolved |-> LoadedConfig(source, NONE, env)]]
        ELSE /\ defaultCfg' = defaultCfg
             /\ th' = [th EXCEPT ![t] =
                         IF CaughtByOuterExcept(outcome)
                         THEN [pc |-> "fallback", op |-> th[t].op,
                               source |-> source]
                         ELSE [pc |-> "done", op |-> th[t].op,
                               config_status |-> <<>>, calls |-> <<>>,
                               resolved |-> NoConfig,
                               result |->
                                 IF th[t].op = "get_logs"
                                 THEN LogConfigRaised(cfg, "solo", NsDev,
                                                      NONE).result
                                 ELSE ConfigRaised(ErrorPrefix(th[t].op),
                                                   cfg).result]]
    /\ UNCHANGED <<KUBECONFIG, last, probeVars>>

\* Lines 57-61: the load of the default file after a ConfigException.
CFallbackLoad(t) ==
    /\ th[t].pc = "fallback"
    /\ \E outcome \in LoadOutcomes :
        LET r == Fallback(th[t].source, NONE, NONE, AllLoads(outcome, LoadServerFailure),
                         defaultCfg)
        IN /\ defaultCfg' = r.config
           /\ th' = [th EXCEPT ![t] =
                       [pc |-> "loaded", op |-> th[t].op,
                        config_status |-> r.status,
                        resolved |-> IF outcome = "ok" THEN r.config
                                     ELSE NoConfig]]
    /\ UNCHANGED <<KUBECONFIG, last, probeVars>>

\* `v1 = client.CoreV1Api()`
CBuildClient(t) ==
    /\ th[t].pc = "loaded"
    /\ th' = [th EXCEPT ![t] = [pc |-> "client", op |-> th[t].op,
                                config_status |-> th[t].config_status,
                                resolved |-> th[t].resolved,
                                v1 |-> defaultCfg]]
    /\ UNCHANGED <<KUBECONFIG, defaultCfg, last, probeVars>>

\* get_pods(namespace="all"): its one remote call and the return statement.
CQuery(t) ==
    /\ th[t].pc = "client"
    /\ th[t].op = "get_pods"
    /\ \E fault \in ConcFaults :
        LET q == get_pods_query(th[t].config_status, th[t].v1, StrAll, NONE,
                                fault)
        IN th' = [th EXCEPT ![t] = [pc |-> "done", op |-> th[t].op,
                                    config_status |-> th[t].config_status,
                                    resolved |-> th[t].resolved,
                                    calls |-> q.calls, result |-> q.result]]
    /\ UNCHANGED <<KUBECONFIG, defaultCfg, last, probeVars>>

\* get_logs("solo", "dev"): the pod read (line 450) and what follows it up
\* to the log read.
CPodRead(t) ==
    /\ th[t].pc = "client"
    /\ th[t].op = "get_logs"
    /\ \E fault \in ConcFaults :
        LET first == get_logs_pod_read(th[t].v1, "solo", NsDev, NONE, fault)
        IN th' = [th EXCEPT ![t] =
                    IF first.returned
                    THEN [pc |-> "done", op |-> th[t].op,
                          config_status |-> th[t].config_status,
                          resolved |-> th[t].resolved,
                          calls |-> first.calls, result |-> first.result]
                    ELSE [pc |-> "logread", op |-> th[t].op,
                          config_status |-> th[t].config_status,
                          resolved |-> th[t].resolved,
                          v1 |-> th[t].v1, calls |-> first.calls,
                          container |-> first.container,
                          container_names |-> first.container_names]]
    /\ UNCHANGED <<KUBECONFIG, defaultCfg, last, probeVars>>

\* get_logs: the log read (line 490) and the return statement.
CLogRead(t) ==
    /\ th[t].pc = "logread"
    /\ \E fault \in ConcFaults :
        LET second == get_logs_log_read(th[t].config_status, th[t].v1, "solo",
                                        NsDev, th[t].container,
                                        th[t].container_names, FALSE, NONE_INT,
                                        NONE_INT, FALSE, fault, <<97, 10>>)
        IN th' = [th EXCEPT ![t] = [pc |-> "done", op |-> th[t].op,
                                    config_status |-> th[t].config_status,
                                    resolved |-> th[t].resolved,
                                    calls |-> th[t].calls \o <<second.call>>,
                                    result |-> second.result]]
    /\ UNCHANGED <<KUBECONFIG, defaultCfg, last, probeVars>>

\* The caller takes the returned record.
CTakeResult(t) ==
    /\ th[t].pc = "done"
    /\ th' = [th EXCEPT ![t] = Idle]
    /\ UNCHANGED <<KUBECONFIG, defaultCfg, last, probeVars>>

ConcNext ==
    \/ SetKubeconfig
    \/ \E t \in Callers : CTestEnv(t)
    \/ \E t \in Callers : CReadEnv(t)
    \/ \E t \in Callers : CPrimaryLoad(t)
    \/ \E t \in Callers : CFallbackLoad(t)
    \/ \E t \in Callers : CBuildClient(t)
    \/ \E t \in Callers : CQuery(t)
    \/ \E t \in Callers : CPodRead(t)
    \/ \E t \in Callers : CLogRead(t)
    \/ \E t \in Callers : CTakeResult(t)

SpecConc == Init /\ [][ConcNext]_vars

(***************************************************************************)
(* Helpers of the properties.                                              *)
(***************************************************************************)

\* The source a returned status string names ("none": the failure string).
ReportedSource(status) ==
    CASE Len(status) = 0 -> "nothing"
      [] Len(status) > 0 /\ status[1] = "Loaded kubeconfig from: " -> "explicit"
      [] Len(status) > 0 /\ status[1] = "Loaded kubeconfig from KUBECONFIG env var: " -> "env"
      [] Len(status) > 0 /\ status[1] = "Loaded in-cluster config (running inside Kubernetes)" -> "incluster"
      [] Len(status) > 0 /\ status[1] = "Loaded kubeconfig from default location (~/.kube/config)" -> "default"
      [] OTHER -> "none"

\* Source s is one the resolution chain may use on the probe's input: the
\* explicit path is given and its file exists, the env var is set and not
\* empty; in-cluster credentials and the default file are always tried when
\* the chain reaches them.
Applicable(s) ==
    CASE s = "explicit"  -> Truthy(rin.path) /\ rin.exists
      [] s = "env"       -> Truthy(rin.kubeEnv)
      [] s = "incluster" -> TRUE
      [] s = "default"   -> TRUE

\* Source number i is applicable and its load would succeed.
Loads(i) == Applicable(Sources[i]) /\ rin.load[Sources[i]] = "ok"

\* Source number i is the first applicable one.
FirstApplicable(i) ==
    Applicable(Sources[i]) /\ \A j \in 1..(i - 1) : ~Applicable(Sources[j])

Returned == rpc = "done" /\ ~rout.raised

(***************************************************************************)
(* C3.  As claimed: for every input on which some source is applicable and *)
(* loads, the returned status names the earliest such source in the order  *)
(* explicit path, KUBECONFIG env var, in-cluster, default file.            *)
(***************************************************************************)
C3_EarliestLoadingSourceWins ==
    Returned =>
        \A i \in 1..Len(Sources) :
            (Loads(i) /\ \A j \in 1..(i - 1) : ~Loads(j))
                => ReportedSource(rout.status) = Sources[i]

(***************************************************************************)
(* C3, amended.  One primary source is chosen, the first applicable of     *)
(* explicit path, env var, in-cluster, and it is the first load attempted; *)
(* a returned status names the primary when its load succeeded, and        *)
(* otherwise the default file exactly when the default file loads.  No     *)
(* other source is tried after a failed primary.                           *)
(***************************************************************************)
C3_FirstApplicableThenDefault ==
    Returned =>
        \A i \in 1..3 :
            FirstApplicable(i) =>
                /\ rout.attempts[1] = Sources[i]
                /\ rin.load[Sources[i]] = "ok"
                      => ReportedSource(rout.status) = Sources[i]
                /\ rin.load[Sources[i]] # "ok"
                      => /\ ReportedSource(rout.status) \in {"default", "none"}
                         /\ ReportedSource(rout.status) = "default"
                                <=> rin.load["default"] = "ok"

\* An existing explicit file fails to load, the env var names a file that
\* would load, and the status names the default file.
C3_Witness ==
    /\ Returned
    /\ Applicable("explicit") /\ rin.load["explicit"] = "config_exc"
    /\ Applicable("env") /\ rin.load["env"] = "ok"
    /\ ReportedSource(rout.status) = "default"

(***************************************************************************)
(* C4.  As claimed: the failure status is returned only when every one of  *)
(* the four sources was inapplicable or could not be loaded.               *)
(***************************************************************************)
C4_FailureOnlyAfterAllFourFailed ==
    (Returned /\ ReportedSource(rout.status) = "none") =>
        \A i \in 1..Len(Sources) : ~Loads(i)

(***************************************************************************)
(* C4, amended.  The failure status is returned only after exactly two     *)
(* loads were attempted and failed: the first applicable source of         *)
(* explicit path, env var, in-cluster (with a config error), then the      *)
(* default file.  The sources between them are not attempted.              *)
(***************************************************************************)
C4_FailureAfterPrimaryAndDefault ==
    (Returned /\ ReportedSource(rout.status) = "none") =>
        /\ Len(rout.attempts) = 2
        /\ \E i \in 1..3 : FirstApplicable(i) /\ rout.attempts[1] = Sources[i]
        /\ rin.load[rout.attempts[1]] = "config_exc"
        /\ rout.attempts[2] = "default"
        /\ rin.load["default"] # "ok"

\* The failure is reported although in-cluster credentials would have loaded.
C4_Witness ==
    /\ Returned /\ ReportedSource(rout.status) = "none"
    /\ Applicable("env") /\ rin.load["incluster"] = "ok"
    /\ rout.attempts = <<"env", "default">>

(***************************************************************************)
(* C5.  Whenever the call resolves no source, it returns (does not raise)  *)
(* a status that carries the failure text of the source attempted first    *)
(* and the failure text of the default-file fallback, whatever exception   *)
(* the first load raised.                                                  *)
(***************************************************************************)
C5_FailureReturnedWithBothMessages ==
    (rpc = "done" /\ rout.config = NoConfig) =>
        /\ ~rout.raised
        /\ Occurs(ErrText(rout.attempts[1]), rout.status)
        /\ Occurs(ErrText("default"), rout.status)

(***************************************************************************)
(* Properties of the tools (specification Spec).                           *)
(***************************************************************************)

Called == last # NoCall
\* The call let an exception reach the caller, or returned a record.
Raised == Called /\ "raised" \in DOMAIN last.result
ReturnedRecord == Called /\ ~Raised
Succeeded == ReturnedRecord /\ last.result.status = "success"
Failed == ReturnedRecord /\ last.result.status = "error"

\* The fields of each tool's success record: always present, and optional.
SuccessKeys(op) ==
    CASE op = "get_pods" -> {"status", "config_info", "pod_count", "pods"}
      [] op = "get_nodes" -> {"status", "config_info", "node_count", "nodes"}
      [] op = "get_namespaces" ->
            {"status", "config_info", "namespace_count", "namespaces"}
      [] op = "get_services" ->
            {"status", "config_info", "service_count", "services"}
      [] op = "get_deployments" ->
            {"status", "config_info", "deployment_count", "deployments"}
      [] op = "describe_pod" -> {"status", "config_info", "pod"}
      [] op = "get_logs" ->
            {"status", "config_info", "pod", "namespace", "container",
             "log_lines_count", "logs"}

OptionalSuccessKeys(op) ==
    IF op = "get_logs"
    THEN {"tail_lines_requested", "since_seconds", "from_previous_container",
          "timestamps_included", "message"}
    ELSE {}

\* The fields of the error record: {status, error_message, error_code?}.
ErrorKeys == {"status", "error_message", "error_code"}

IsSuccessRecord(op, r) ==
    /\ r.status = "success"
    /\ SuccessKeys(op) \subseteq DOMAIN r
    /\ DOMAIN r \subseteq SuccessKeys(op) \cup OptionalSuccessKeys(op)

(***************************************************************************)
(* C1.  Every call of one of the seven tools returns a record whose status *)
(* field is "success" or "error", whatever the configuration loads and the *)
(* remote calls did; no exception reaches the caller.                      *)
(***************************************************************************)
C1_AlwaysAStatusRecord ==
    Called =>
        /\ "status" \in DOMAIN last.result
        /\ last.result.status \in {"success", "error"}

(***************************************************************************)
(* C2.  As claimed: every returned record is a Success record (status      *)
(* "success", config_info, the tool's payload, no error_message) or an     *)
(* Error record of the shape {status, error_message, error_code?}, with no *)
(* config_info and no data of the resource.                                *)
(***************************************************************************)
C2_ExactlyTwoVariants ==
    ReturnedRecord =>
        \/ IsSuccessRecord(last.op, last.result)
        \/ /\ last.result.status = "error"
           /\ "error_message" \in DOMAIN last.result
           /\ DOMAIN last.result \subseteq ErrorKeys

(***************************************************************************)
(* C2, amended.  Every returned record is a Success record or an Error     *)
(* record; an Error record carries status, error_message and at most       *)
(* error_code, except the multiple-containers Error of get_logs, which     *)
(* also carries `containers`, the names of the pod's containers.  No Error *)
(* record carries config_info or a field of the tool's Success record.     *)
(***************************************************************************)
C2_TwoVariantsButContainerList ==
    ReturnedRecord =>
        \/ IsSuccessRecord(last.op, last.result)
        \/ /\ last.result.status = "error"
           /\ "error_message" \in DOMAIN last.result
           /\ DOMAIN last.result \subseteq ErrorKeys \cup {"containers"}
           /\ DOMAIN last.result \cap
                (SuccessKeys(last.op) \cup OptionalSuccessKeys(last.op))
                  = {"status"}
           /\ "containers" \in DOMAIN last.result =>
                /\ last.op = "get_logs"
                /\ ~Truthy(last.args.container)
                /\ Len(last.result.containers) > 1
                /\ "error_code" \notin DOMAIN last.result

\* The multiple-containers Error of get_logs.
C2_Witness ==
    /\ Failed
    /\ last.op = "get_logs"
    /\ "containers" \in DOMAIN last.result
    /\ last.result.containers = <<"app", "sidecar">>

(***************************************************************************)
(* C6.  In every Success record obtained through a loaded configuration,   *)
(* config_info names the credential source of the configuration the        *)
(* tool's remote calls used: it never says that no configuration was       *)
(* loaded and never names another source.                                  *)
(***************************************************************************)
C6_ConfigInfoNamesTheSourceUsed ==
    Succeeded =>
        \A i \in DOMAIN last.calls :
            last.calls[i].via # NoConfig =>
                ReportedSource(last.result.config_info) = last.calls[i].via.source

(***************************************************************************)
(* C8.  Every remote call a tool issues is a list or read call, and every  *)
(* list call is issued with watch disabled.                                *)
(***************************************************************************)
ListApis ==
    {"list_pod_for_all_namespaces", "list_namespaced_pod", "list_node",
     "list_namespace", "list_service_for_all_namespaces",
     "list_namespaced_service", "list_deployment_for_all_namespaces",
     "list_namespaced_deployment"}
ReadApis == {"read_namespaced_pod", "read_namespaced_pod_log"}

C8_ReadOnlyCalls ==
    Called =>
        \A i \in DOMAIN last.calls :
            /\ last.calls[i].api \in ListApis \cup ReadApis
            /\ last.calls[i].api \in ListApis =>
                  /\ "watch" \in DOMAIN last.calls[i]
                  /\ last.calls[i].watch = FALSE

\* A cluster-wide pod list was issued and served.
C8_Witness ==
    /\ Succeeded
    /\ last.op = "get_pods"
    /\ last.calls[1].api = "list_pod_for_all_namespaces"
    /\ last.calls[1].watch = FALSE

(***************************************************************************)
(* C9.  get_pods, get_services and get_deployments: a namespace argument   *)
(* that spells "all" in any letter case issues the cluster-wide list call  *)
(* and a served call returns one record per item of the cluster, in the    *)
(* cluster's order; any other value issues the namespaced list call with   *)
(* exactly that value and returns records of that namespace's items only,  *)
(* one per item, in order.  (get_pods lists the items its label selector   *)
(* matches.)                                                               *)
(***************************************************************************)
AllSpellings ==
    {s \in [1..3 -> {"a", "A", "l", "L"}] :
        s[1] \in {"a", "A"} /\ s[2] \in {"l", "L"} /\ s[3] \in {"l", "L"}}

ClusterItems(op) ==
    CASE op = "get_pods" ->
            SelectSeq(ClusterPods,
                      LAMBDA o : SelectorMatches(last.args.label_selector, o.labels))
      [] op = "get_services" -> ClusterServices
      [] op = "get_deployments" -> ClusterDeployments

ReturnedItems(op) ==
    CASE op = "get_pods" -> last.result.pods
      [] op = "get_services" -> last.result.services
      [] op = "get_deployments" -> last.result.deployments

ClusterWideApi(op) ==
    CASE op = "get_pods" -> "list_pod_for_all_namespaces"
      [] op = "get_services" -> "list_service_for_all_namespaces"
      [] op = "get_deployments" -> "list_deployment_for_all_namespaces"

NamespacedApi(op) ==
    CASE op = "get_pods" -> "list_namespaced_pod"
      [] op = "get_services" -> "list_namespaced_service"
      [] op = "get_deployments" -> "list_namespaced_deployment"

NameAndNamespace(o) == <<o.name, o.namespace>>

C9_AllMeansClusterWide ==
    (Called /\ last.op \in {"get_pods", "get_services", "get_deployments"}
        /\ last.calls # <<>>) =>
        LET expected ==
                IF last.args.namespace \in AllSpellings
                THEN ClusterItems(last.op)
                ELSE SelectSeq(ClusterItems(last.op),
                               LAMBDA o : o.namespace = last.args.namespace)
        IN /\ Len(last.calls) = 1
           /\ IF last.args.namespace \in AllSpellings
              THEN last.calls[1].api = ClusterWideApi(last.op)
              ELSE /\ last.calls[1].api = NamespacedApi(last.op)
                   /\ last.calls[1].namespace = last.args.namespace
           /\ Succeeded =>
                MapSeq(NameAndNamespace, ReturnedItems(last.op))
                    = MapSeq(NameAndNamespace, expected)

\* "All" lists the pods of both namespaces.
C9_Witness ==
    /\ Succeeded
    /\ last.op = "get_pods"
    /\ last.args.namespace = <<"A", "l", "l">>
    /\ last.args.label_selector = NONE
    /\ Len(last.result.pods) = 3

(***************************************************************************)
(* C10.  get_logs on a pod with more than one container: without a         *)
(* container argument it returns an Error that lists every container name  *)
(* of the pod and issues no log read; with the container argument naming   *)
(* one of the pod's containers it issues the log read for exactly that     *)
(* container.                                                              *)
(***************************************************************************)
C10_NeverGuessesAContainer ==
    (Called /\ last.op = "get_logs" /\ last.calls # <<>>
        /\ last.faults[1] = NoFault
        /\ FoundPods(last.args.pod_name, last.args.namespace) # <<>>) =>
        LET names == ContainerNames(
                        FoundPods(last.args.pod_name, last.args.namespace)[1])
        IN Len(names) > 1 =>
            /\ last.args.container = NONE =>
                  /\ Failed
                  /\ \A i \in DOMAIN names :
                        Occurs(<<names[i]>>, last.result.error_message)
                  /\ \A i \in DOMAIN last.calls :
                        last.calls[i].api # "read_namespaced_pod_log"
            /\ (\E i \in DOMAIN names : names[i] = last.args.container) =>
                  /\ Len(last.calls) = 2
                  /\ last.calls[2].api = "read_namespaced_pod_log"
                  /\ last.calls[2].container = last.args.container

\* The two-container pod, no container argument: an Error and one remote call.
C10_Witness ==
    /\ Failed
    /\ last.op = "get_logs"
    /\ last.args.pod_name = "duo" /\ last.args.container = NONE
    /\ last.faults[1] = NoFault
    /\ Len(last.calls) = 1
    /\ Occurs(<<"app", "sidecar">>, last.result.error_message)

\* What the API server answered to the pod read and to the log read of the
\* returned get_logs call.
PodReadAnswer == ServeRead(last.calls[1], last.faults[1])
LogReadAnswer == ServeLog(last.calls[2], last.faults[2], last.faults[3])

PodReadIssued == Called /\ last.op = "get_logs" /\ Len(last.calls) >= 1
LogReadIssued == Called /\ last.op = "get_logs" /\ Len(last.calls) = 2

(***************************************************************************)
(* C11.  In get_logs a remote call answered with HTTP status 404, the pod   *)
(* read or the log read, gives an Error record whose error_message contains *)
(* "not found" and whose error_code is 404.                                 *)
(***************************************************************************)
C11_NotFoundIsReported ==
    ((PodReadIssued /\ PodReadAnswer.kind = "api" /\ PodReadAnswer.status = 404)
     \/ (LogReadIssued /\ LogReadAnswer.kind = "api"
            /\ LogReadAnswer.status = 404)) =>
        /\ Failed
        /\ "error_code" \in DOMAIN last.result
        /\ last.result.error_code = 404
        /\ Occurs(<<"not found">>, last.result.error_message)

\* The pod read was served and the log read was answered 404.
C11_Witness ==
    /\ LogReadIssued
    /\ PodReadAnswer.kind = "ok"
    /\ LogReadAnswer.kind = "api" /\ LogReadAnswer.status = 404
    /\ last.result.error_code = 404
    /\ last.result.error_message =
            PodNotFoundText(last.args.pod_name, last.args.namespace)

(***************************************************************************)
(* C12.  When the log read returns text, get_logs returns a Success record  *)
(* whose logs field is that text unchanged; the record carries a message    *)
(* field exactly when the text is empty or holds only whitespace.           *)
(***************************************************************************)
C12_EmptyLogsAreASuccess ==
    (LogReadIssued /\ LogReadAnswer.kind = "ok") =>
        /\ Succeeded
        /\ last.result.logs = LogReadAnswer.logs
        /\ "message" \in DOMAIN last.result <=>
               \A i \in DOMAIN LogReadAnswer.logs : IsSpace(LogReadAnswer.logs[i])

\* The container wrote only whitespace: a Success with the text and a message.
C12_Witness ==
    /\ LogReadIssued
    /\ LogReadAnswer.kind = "ok"
    /\ LogReadAnswer.logs = <<32, 11, 160, 10>>
    /\ Succeeded
    /\ last.result.logs = <<32, 11, 160, 10>>
    /\ "message" \in DOMAIN last.result

\* describe_pod returned a Success record; the pod it describes, and the
\* container-status entries of the record (none when the key is absent).
Described == Succeeded /\ last.op = "describe_pod"
DescribedPod == FoundPods(last.args.name, last.args.namespace)[1]
StatusEntries ==
    IF "container_statuses" \in DOMAIN last.result.pod
    THEN last.result.pod.container_statuses ELSE <<>>

\* The state fields the API reported as set on a container status.
StateFields == <<"running", "terminated", "waiting">>
FieldsSet(cs) ==
    IF cs.state = NoneObj THEN {}
    ELSE {f \in {"running", "terminated", "waiting"} : cs.state[f] # NoneObj}

(***************************************************************************)
(* C13.  As claimed: in a describe_pod Success record every container-      *)
(* status entry has a state with exactly one of running, terminated,        *)
(* waiting, for every combination of state fields the API reports.          *)
(***************************************************************************)
C13_ExactlyOneStateVariant ==
    Described =>
        \A i \in DOMAIN StatusEntries :
            /\ "state" \in DOMAIN StatusEntries[i]
            /\ Cardinality(DOMAIN StatusEntries[i].state
                             \cap {"running", "terminated", "waiting"}) = 1

(***************************************************************************)
(* C13, amended.  Every container-status entry has at most one state        *)
(* variant: an entry carries a state exactly when the API reported at least *)
(* one of running, terminated, waiting as set, and the state then holds the *)
(* first one set, in that order, and nothing else; an entry whose status    *)
(* has no state or no state field set carries no state at all.              *)
(***************************************************************************)
C13_AtMostOneStateVariant ==
    Described =>
        /\ Len(StatusEntries) = Len(DescribedPod.container_statuses)
        /\ \A i \in DOMAIN StatusEntries :
            LET cs == DescribedPod.container_statuses[i]
                entry == StatusEntries[i]
            IN /\ "state" \in DOMAIN entry <=> FieldsSet(cs) # {}
               /\ "state" \in DOMAIN entry =>
                    \E k \in DOMAIN StateFields :
                        /\ DOMAIN entry.state = {StateFields[k]}
                        /\ StateFields[k] \in FieldsSet(cs)
                        /\ \A j \in 1..(k - 1) : StateFields[j] \notin FieldsSet(cs)

\* The pod "job" described: a status with no field set gives an entry without
\* a state, and a status with running and waiting set gives running alone.
C13_Witness ==
    /\ Described
    /\ last.args.name = "job"
    /\ Len(StatusEntries) = 5
    /\ "state" \notin DOMAIN StatusEntries[2]
    /\ "state" \notin DOMAIN StatusEntries[5]
    /\ DOMAIN StatusEntries[3].state = {"running"}
    /\ DOMAIN StatusEntries[1].state = {"terminated"}

\* The label keys of a node that start with the role prefix.
PrefixedKeys(node) ==
    SelectSeq([i \in DOMAIN node.labels |-> node.labels[i].key],
              LAMBDA key : key # <<>> /\ Head(key) = RolePrefix)

(***************************************************************************)
(* C14.  In a get_nodes Success record every node's roles list is not       *)
(* empty: it holds the suffix after "node-role.kubernetes.io/" of each      *)
(* label key that starts with that prefix, it is ["worker"] exactly when no *)
(* label key starts with the prefix, and a label key that does not start    *)
(* with the prefix contributes no role.                                     *)
(***************************************************************************)
C14_RolesFromPrefixedKeys ==
    (Succeeded /\ last.op = "get_nodes") =>
        \A i \in DOMAIN last.result.nodes :
            LET keys == PrefixedKeys(ClusterNodes[i])
                roles == last.result.nodes[i].roles
            IN /\ roles # <<>>
               /\ roles = IF keys = <<>> THEN << <<"worker">> >>
                          ELSE [k \in DOMAIN keys |-> Tail(keys[k])]

(***************************************************************************)
(* C15.  The log read of get_logs carries tail_lines exactly when the       *)
(* caller gave tail_lines, and since_seconds exactly when the caller gave   *)
(* since_seconds, each with the caller's value; a value of 0 is given, and  *)
(* an option the caller left out is not sent.                               *)
(***************************************************************************)
C15_LogOptionsPassThrough ==
    LogReadIssued =>
        LET call == last.calls[2] IN
        /\ "tail_lines" \in DOMAIN call <=> last.args.tail_lines # NONE_INT
        /\ "tail_lines" \in DOMAIN call => call.tail_lines = last.args.tail_lines
        /\ "since_seconds" \in DOMAIN call <=> last.args.since_seconds # NONE_INT
        /\ "since_seconds" \in DOMAIN call =>
               call.since_seconds = last.args.since_seconds

\* tail_lines=0 without since_seconds: the log read carries tail_lines 0 and
\* no since_seconds.
C15_Witness ==
    /\ LogReadIssued
    /\ last.args.tail_lines = 0 /\ last.args.since_seconds = NONE_INT
    /\ "tail_lines" \in DOMAIN last.calls[2]
    /\ last.calls[2].tail_lines = 0
    /\ "since_seconds" \notin DOMAIN last.calls[2]

\* The environment variables of a container that have a direct literal
\* value (TOKEN, whose value is None, comes from a secret), as the record
\* lists them.
DirectEnv(container) ==
    LET direct == SelectSeq(container.env, LAMBDA e : e.value # NONE)
    IN [k \in DOMAIN direct |->
            [name |-> direct[k].name, value |-> direct[k].value]]

(***************************************************************************)
(* C16.  In a describe_pod Success record the env list of each container    *)
(* holds exactly the container's environment variables that have a direct   *)
(* literal value, in their order: a variable is left out if and only if it  *)
(* has no direct value.                                                     *)
(***************************************************************************)
C16_EnvKeepsDirectValues ==
    Described =>
        /\ Len(last.result.pod.spec.containers) = Len(DescribedPod.containers)
        /\ \A i \in DOMAIN DescribedPod.containers :
              last.result.pod.spec.containers[i].env =
                  DirectEnv(DescribedPod.containers[i])

\* The configuration load of the returned call raised an exception that
\* load_kubernetes_config does not catch.
ConfigLoadRaised ==
    last.load[PrimarySource(NONE, FALSE, KUBECONFIG)] \in {"api_exc", "other_exc"}

SingleCallOps ==
    {"get_pods", "get_nodes", "get_namespaces", "get_services",
     "get_deployments", "describe_pod"}

\* get_logs issues its remote calls in order and stops at the first failure:
\* the pod read first, the log read only after the pod read was served and
\* the multiple-containers Error was not returned.
LogCallsInOrder ==
    /\ Len(last.calls) <= 2
    /\ Len(last.calls) >= 1 => last.calls[1].api = "read_namespaced_pod"
    /\ Len(last.calls) = 2 =>
          /\ last.calls[2].api = "read_namespaced_pod_log"
          /\ PodReadAnswer.kind = "ok"
          /\ "containers" \notin DOMAIN last.result
    /\ (Len(last.calls) >= 1 /\ PodReadAnswer.kind # "ok") =>
          Len(last.calls) = 1
    /\ "containers" \in DOMAIN last.result => Len(last.calls) = 1

(***************************************************************************)
(* C17.  Every call of a list tool or of describe_pod issues exactly one    *)
(* remote call; get_logs issues at most two, the pod read and then the log  *)
(* read, and no log read after a failed pod read or with the multiple-      *)
(* containers Error; a failed remote call is not issued again.              *)
(***************************************************************************)
C17_ExactlyOneRemoteCall ==
    Called =>
        /\ last.op \in SingleCallOps => Len(last.calls) = 1
        /\ last.op = "get_logs" => LogCallsInOrder

\* What does hold of the remote calls: none when load_kubernetes_config
\* raised; otherwise exactly one for a list tool or describe_pod, and for
\* get_logs the pod read followed by at most the log read.
RemoteCallsOnceConfigured ==
    Called =>
        /\ ConfigLoadRaised => last.calls = <<>>
        /\ (last.op \in SingleCallOps /\ ~ConfigLoadRaised) =>
              Len(last.calls) = 1
        /\ (last.op = "get_logs" /\ ~ConfigLoadRaised) =>
              Len(last.calls) >= 1 /\ LogCallsInOrder

\* What the API server answered to the remote calls of the returned call,
\* and the answers that are rejections (ApiException).
Answers ==
    IF last.calls = <<>> THEN {}
    ELSE IF last.op = "get_logs"
    THEN {PodReadAnswer} \cup (IF Len(last.calls) = 2 THEN {LogReadAnswer} ELSE {})
    ELSE IF last.op = "describe_pod"
    THEN {ServeRead(last.calls[1], last.faults[1])}
    ELSE {ServeList(last.calls[1], last.faults[1])}

Rejections == {a \in Answers : a.kind = "api"}

(***************************************************************************)
(* C18.  When the API server rejects a remote call of a tool, the Error     *)
(* record carries the server's status as error_code and an error_message    *)
(* that contains the server's reason; only a get_logs failure with status   *)
(* 400 or 404 may carry a remapped message instead, so a get_logs pod read  *)
(* or log read rejected with 403 or 500 reports the server's reason.  A     *)
(* failure that is no server rejection carries no error_code.               *)
(***************************************************************************)
C18_ServerReasonReported ==
    Called =>
        /\ \A a \in Rejections :
              /\ Failed
              /\ "error_code" \in DOMAIN last.result
              /\ last.result.error_code = a.status
              /\ \/ Occurs(<<a.reason>>, last.result.error_message)
                 \/ last.op = "get_logs" /\ a.status \in {400, 404}
        /\ (Failed /\ Rejections = {}) => "error_code" \notin DOMAIN last.result

(***************************************************************************)
(* C7 (specification SpecConc).  Concurrent calls share no state: a call   *)
(* whose own resolution loaded a configuration issues its remote calls     *)
(* through that configuration, whatever another caller resolves in         *)
(* between.                                                                *)
(***************************************************************************)
C7_CallsUseTheirOwnConfiguration ==
    \A t \in Callers :
        (th[t].pc = "done" /\ th[t].resolved # NoConfig) =>
            \A i \in DOMAIN th[t].calls : th[t].calls[i].via = th[t].resolved

====
